---- MODULE Spec2Model ----
(***************************************************************************)
(* Model of ragna/assistants/_google.py: the GoogleAssistant adapter.      *)
(*                                                                         *)
(* Texts are sequences of characters; a string literal of the source that  *)
(* holds no newline is one opaque token of such a sequence.  A Message is  *)
(* a record {role, content, sources}, a Source a record {content}.         *)
(* Python name resolution is modelled explicitly: a free name used inside  *)
(* a method body is looked up in the module's globals, and the lookup of   *)
(* a name the module never binds raises NameError.                         *)
(***************************************************************************)
EXTENDS Naturals, Sequences, FiniteSets, TLC

VARIABLES
    config,     \* per-instance configuration: [api_key, model]
    kind,       \* kind[c]: which coroutine-generator call slot c holds
    args,       \* args[c]: the arguments of the call
    script,     \* script[c]: what the collaborator's stream would do for c
    pc,         \* pc[c]: "idle" | "created" | "raised" | "closed"
    err,        \* err[c]: exception the consumer of c received ("none" if none)
    delivered,  \* delivered[c]: items the consumer of c received, in order
    request,    \* request[c]: the HTTP request issued for c, or NoRequest
    rp_in,      \* argument of a direct _render_prompt call
    rp_out,     \* its outcome
    ip_in,      \* arguments of a direct _instructize_prompt call
    ip_out      \* its outcome

vars == <<config, kind, args, script, pc, err, delivered, request,
          rp_in, rp_out, ip_in, ip_out>>

callVars == <<config, kind, args, script, pc, err, delivered, request>>
renderVars == <<rp_in, rp_out>>
instrVars == <<ip_in, ip_out>>

(***************************************************************************)
(* Bounds of the model.                                                    *)
(***************************************************************************)
NumCalls == 2
MaxMsgs == 3
MaxCallMsgs == 2
MaxSources == 2
MaxPromptLen == 2
MaxSrcLen == 2
MaxFrags == 2

Calls == 1..NumCalls

RECURSIVE SeqsUpTo(_, _)
SeqsUpTo(S, n) ==
    IF n = 0 THEN {<<>>}
    ELSE LET shorter == SeqsUpTo(S, n - 1)
         IN  shorter \cup {Append(s, x) : s \in {t \in shorter : Len(t) = n - 1}, x \in S}

NL == "\n"
\* characters of a prompt and of a source's content (kept apart, so that one
\* is never mistaken for the other)
PromptChars == {"a", NL}
SourceChars == {"b", NL}

(***************************************************************************)
(* ragna.core.Message / Source / MessageRole, as the adapter uses them.    *)
(***************************************************************************)
Source(content) == [content |-> content]

Message(content, role, sources) ==
    [content |-> content, role |-> role, sources |-> sources]

\* the values of ragna.core.MessageRole
RoleEnum == {"system", "user", "assistant"}

\* a role value outside the enum
OtherRole == "tool"

(***************************************************************************)
(* Names bound at module level in _google.py.  Method names are bound in   *)
(* the class namespace only, which a method body does not search.          *)
(***************************************************************************)
ModuleGlobals ==
    {"AsyncIterator", "Union", "Message", "Source", "HttpApiAssistant",
     "HttpStreamingProtocol", "GoogleAssistant", "GeminiPro", "GeminiUltra"}

NameLookup(name) == IF name \in ModuleGlobals THEN "bound" ELSE "NameError"

Returned(v) == [err |-> "none", val |-> v]
Raised(e) == [err |-> e, val |-> <<>>]

(***************************************************************************)
(* str.join: the parts in order, sep between every two neighbours.         *)
(***************************************************************************)
RECURSIVE Join(_, _)
Join(sep, parts) ==
    IF parts = <<>> THEN <<>>
    ELSE IF Len(parts) = 1 THEN parts[1]
    ELSE parts[1] \o sep \o Join(sep, Tail(parts))

PreambleLine1 == <<"Answer the prompt using only the pieces of context below.">>
PreambleLine2 ==
    <<"If you don't know the answer, just say so. Don't try to make up additional context.">>
PromptLabel == <<"Prompt: ">>

Reverse(s) == [i \in 1..Len(s) |-> s[Len(s) + 1 - i]]

\* faulty variant: the sources are folded in in reverse order
instructize_prompt_reversed(prompt, sources) ==
    Join(<<NL>>,
         <<PreambleLine1, PreambleLine2, PromptLabel \o prompt>>
           \o [k \in 1..Len(sources) |-> <<NL>> \o Reverse(sources)[k].content])

(***************************************************************************)
(* GoogleAssistant._instructize_prompt                                     *)
(***************************************************************************)
_instructize_prompt(prompt, sources) ==
    Join(<<NL>>,
         <<PreambleLine1, PreambleLine2, PromptLabel \o prompt>>
           \o [k \in 1..Len(sources) |-> <<NL>> \o sources[k].content])

\* faulty variant: the assistant role keeps its own name
role_mapping_identity == [r \in {"user", "assistant"} |-> r]

\* role_mapping = {"user": "user", "assistant": "model"}
role_mapping ==
    [r \in {"user", "assistant"} |-> IF r = "user" THEN "user" ELSE "model"]

\* one element of the list comprehension's result
Rendered(i) == [parts |-> <<[text |-> i.content]>>, role |-> role_mapping[i.role]]

(***************************************************************************)
(* The list comprehension of _render_prompt: the messages in order, the    *)
(* system ones skipped; role_mapping[...] raises KeyError on a role it     *)
(* has no key for, which ends the comprehension.                           *)
(***************************************************************************)
RECURSIVE render_comprehension(_, _)
render_comprehension(messages, acc) ==
    IF messages = <<>> THEN Returned(acc)
    ELSE LET i == Head(messages)
         IN  IF i.role = "system"
             THEN render_comprehension(Tail(messages), acc)
             ELSE IF i.role \notin DOMAIN role_mapping
                  THEN Raised("KeyError")
                  ELSE render_comprehension(Tail(messages), Append(acc, Rendered(i)))

\* the two shapes of the Union[str, list[Message]] argument
StrPrompt(text) == [type |-> "str", text |-> text, msgs |-> <<>>]
ListPrompt(msgs) == [type |-> "list", text |-> <<>>, msgs |-> msgs]

RECURSIVE render_lenient(_, _)
render_lenient(messages, acc) ==
    IF messages = <<>> THEN Returned(acc)
    ELSE LET i == Head(messages)
             role == IF i.role \in DOMAIN role_mapping THEN role_mapping[i.role] ELSE "user"
         IN  IF i.role = "system"
             THEN render_lenient(Tail(messages), acc)
             ELSE render_lenient(Tail(messages),
                                 Append(acc, [parts |-> <<[text |-> i.content]>>,
                                              role |-> role]))

\* faulty variant: role_mapping.get(role, "user") in place of role_mapping[role]
render_prompt_default_role(prompt) ==
    IF prompt.type = "str"
    THEN Raised("NameError")
    ELSE render_lenient(prompt.msgs, <<>>)

(***************************************************************************)
(* GoogleAssistant._render_prompt.  In the str branch the arguments of     *)
(* Message(...) are evaluated first, and MessageRole is a free name.       *)
(***************************************************************************)
_render_prompt(prompt) ==
    IF prompt.type = "str"
    THEN IF NameLookup("MessageRole") = "NameError"
         THEN Raised("NameError")
         ELSE render_comprehension(<<Message(prompt.text, "user", <<>>)>>, <<>>)
    ELSE render_comprehension(prompt.msgs, <<>>)

(***************************************************************************)
(* Argument domains.                                                       *)
(***************************************************************************)
MsgContents == {<<"a">>, <<"b">>}

RenderMessages ==
    {Message(c, r, <<>>) : c \in MsgContents, r \in RoleEnum \cup {OtherRole}}

RenderInputs ==
    {StrPrompt(t) : t \in SeqsUpTo(PromptChars, MaxPromptLen)}
      \cup {ListPrompt(ms) : ms \in SeqsUpTo(RenderMessages, MaxMsgs)}

InstrInputs ==
    {[prompt |-> p, sources |-> ss] :
        p \in SeqsUpTo(PromptChars, MaxPromptLen),
        ss \in SeqsUpTo({Source(t) : t \in SeqsUpTo(SourceChars, MaxSrcLen)}, MaxSources)}

CallMessages ==
    {Message(<<"a">>, "assistant", <<>>),
     Message(<<"b">>, "user", <<Source(<<"a">>)>>)}

CallMessageLists == SeqsUpTo(CallMessages, MaxCallMsgs)

GeneratePrompts == {StrPrompt(<<"a">>)} \cup {ListPrompt(ms) : ms \in CallMessageLists}

\* max_new_tokens: int = 256
DefaultMaxNewTokens == 256

\* the keyword argument as the caller passes it: <<>> when omitted
PassedTokens == {<<>>, <<16>>}

\* what the collaborator's stream would do for a call: the text fragments it
\* would hand out, and whether it would then fail instead of ending
Scripts ==
    {[frags |-> [i \in 1..k |-> i], fails |-> f] : k \in 0..MaxFrags, f \in BOOLEAN}

Configs == {[api_key |-> "GOOGLE_API_KEY value", model |-> m] :
               m \in {"gemini-pro", "gemini-ultra"}}

NoRequest == [issued |-> FALSE]
NoArgs == [prompt |-> ListPrompt(<<>>), passed |-> <<>>, max_new_tokens |-> 0]
NoScript == [frags |-> <<>>, fails |-> FALSE]
NotCalled == [err |-> "pending", val |-> <<>>]

CallsIdle ==
    /\ kind = [c \in Calls |-> "none"]
    /\ args = [c \in Calls |-> NoArgs]
    /\ script = [c \in Calls |-> NoScript]
    /\ pc = [c \in Calls |-> "idle"]
    /\ err = [c \in Calls |-> "none"]
    /\ delivered = [c \in Calls |-> <<>>]
    /\ request = [c \in Calls |-> NoRequest]

(***************************************************************************)
(* A direct call of _render_prompt.                                        *)
(***************************************************************************)
InitRender ==
    /\ config \in Configs
    /\ CallsIdle
    /\ rp_in \in RenderInputs
    /\ rp_out = NotCalled
    /\ ip_in = [prompt |-> <<>>, sources |-> <<>>]
    /\ ip_out = NotCalled

RenderPrompt ==
    /\ rp_out = NotCalled
    /\ rp_out' = _render_prompt(rp_in)
    /\ UNCHANGED <<rp_in, callVars, instrVars>>

SpecRender == InitRender /\ [][RenderPrompt]_vars

(***************************************************************************)
(* A direct call of _instructize_prompt.                                   *)
(***************************************************************************)
InitInstr ==
    /\ config \in Configs
    /\ CallsIdle
    /\ rp_in = ListPrompt(<<>>)
    /\ rp_out = NotCalled
    /\ ip_in \in InstrInputs
    /\ ip_out = NotCalled

InstructizePrompt ==
    /\ ip_out = NotCalled
    /\ ip_out' = Returned(_instructize_prompt(ip_in.prompt, ip_in.sources))
    /\ UNCHANGED <<ip_in, callVars, renderVars>>

SpecInstr == InitInstr /\ [][InstructizePrompt]_vars

(***************************************************************************)
(* The body of an async generator up to its first suspension or exit.      *)
(* No await is reached before the exits modelled here, so the consumer's   *)
(* first __anext__ runs each of them as one step.                          *)
(***************************************************************************)
BodyRaised(e) == [err |-> e, yielded |-> <<>>, request |-> NoRequest]

(***************************************************************************)
(* GoogleAssistant.generate.  Python evaluates the arguments of            *)
(* self._call_api(...) before it calls it; the json= argument names the    *)
(* free name _render_prompt, which the module binds nowhere.  The lookup   *)
(* raises before _call_api is entered: no request is issued, no stream is  *)
(* acquired, and the loop over the stream is never reached.                *)
(***************************************************************************)
generate(self, prompt, max_new_tokens) ==
    CASE NameLookup("_render_prompt") = "NameError" -> BodyRaised("NameError")

(***************************************************************************)
(* GoogleAssistant.answer.  messages[-1] raises IndexError on an empty     *)
(* list; the yield expression names the free name generate.                *)
(***************************************************************************)
answer(self, messages, max_new_tokens) ==
    IF messages = <<>>
    THEN BodyRaised("IndexError")
    ELSE LET message == messages[Len(messages)]
             prompt == message.content
             sources == message.sources
             expanded_prompt == _instructize_prompt(prompt, sources)
         IN  \* expanded_prompt is computed, then the yield expression is evaluated
             CASE NameLookup("generate") = "NameError" -> BodyRaised("NameError")

Body(c) ==
    IF kind[c] = "generate"
    THEN generate(config, args[c].prompt, args[c].max_new_tokens)
    ELSE answer(config, args[c].prompt.msgs, args[c].max_new_tokens)

MaxNewTokens(passed) == IF passed = <<>> THEN DefaultMaxNewTokens ELSE passed[1]

(***************************************************************************)
(* Calls on one adapter instance.  Calling an async generator function     *)
(* runs none of its body; the consumer drives it.                          *)
(***************************************************************************)
Init ==
    /\ config \in Configs
    /\ CallsIdle
    /\ rp_in = ListPrompt(<<>>)
    /\ rp_out = NotCalled
    /\ ip_in = [prompt |-> <<>>, sources |-> <<>>]
    /\ ip_out = NotCalled

CallGenerate(c) ==
    \E prompt \in GeneratePrompts, passed \in PassedTokens, s \in Scripts :
        /\ pc[c] = "idle"
        /\ kind' = [kind EXCEPT ![c] = "generate"]
        /\ args' = [args EXCEPT ![c] = [prompt |-> prompt, passed |-> passed,
                                        max_new_tokens |-> MaxNewTokens(passed)]]
        /\ script' = [script EXCEPT ![c] = s]
        /\ pc' = [pc EXCEPT ![c] = "created"]
        /\ UNCHANGED <<config, err, delivered, request, renderVars, instrVars>>

CallAnswer(c) ==
    \E messages \in CallMessageLists, passed \in PassedTokens, s \in Scripts :
        /\ pc[c] = "idle"
        /\ kind' = [kind EXCEPT ![c] = "answer"]
        /\ args' = [args EXCEPT ![c] = [prompt |-> ListPrompt(messages), passed |-> passed,
                                        max_new_tokens |-> MaxNewTokens(passed)]]
        /\ script' = [script EXCEPT ![c] = s]
        /\ pc' = [pc EXCEPT ![c] = "created"]
        /\ UNCHANGED <<config, err, delivered, request, renderVars, instrVars>>

\* the consumer's first __anext__
Anext(c) ==
    /\ pc[c] = "created"
    /\ LET b == Body(c)
       IN  /\ err' = [err EXCEPT ![c] = b.err]
           /\ delivered' = [delivered EXCEPT ![c] = delivered[c] \o b.yielded]
           /\ request' = [request EXCEPT ![c] = b.request]
           /\ pc' = [pc EXCEPT ![c] = IF b.err = "none" THEN "suspended" ELSE "raised"]
    /\ UNCHANGED <<config, kind, args, script, renderVars, instrVars>>

\* the consumer drops a generator it never started: aclose() runs no body
Aclose(c) ==
    /\ pc[c] = "created"
    /\ pc' = [pc EXCEPT ![c] = "closed"]
    /\ UNCHANGED <<config, kind, args, script, err, delivered, request,
                   renderVars, instrVars>>

Next == \E c \in Calls : CallGenerate(c) \/ CallAnswer(c) \/ Anext(c) \/ Aclose(c)

Spec == Init /\ [][Next]_vars

(***************************************************************************)
(* Properties.                                                             *)
(***************************************************************************)
Ran(c) == pc[c] \in {"raised", "suspended"}
Ended(c) == pc[c] = "raised"
StreamError == "TransportError"
ScriptedError(c) == IF script[c].fails THEN StreamError ELSE "none"
UserEntry(text) == [parts |-> <<[text |-> text]>>, role |-> "user"]

\* C1: an answer call on a non-empty message list whose stream would hand out
\* f1..fn and then end delivers exactly f1..fn to its consumer, in order, as
\* text fragments, and then ends without an error.
C1_AnswerDeliversFragments ==
    \A c \in Calls :
        (/\ kind[c] = "answer"
         /\ args[c].prompt.msgs # <<>>
         /\ ~script[c].fails
         /\ Ended(c))
        => /\ delivered[c] = script[c].frags
           /\ err[c] = "none"

HarmCategories == {"HARASSMENT", "HATE_SPEECH", "SEXUALLY_EXPLICIT", "DANGEROUS_CONTENT"}

\* C2: every generate call that has run has issued a request whose body holds
\* contents = renderPrompt(prompt), temperature 0.0, maxOutputTokens = the
\* supplied max_new_tokens (256 when omitted) and exactly four safetySettings,
\* one per harm category, all with threshold BLOCK_NONE.
C2_GenerateRequestBody ==
    \A c \in Calls :
        (kind[c] = "generate" /\ Ran(c))
        => /\ request[c].issued
           /\ request[c].body.contents = _render_prompt(args[c].prompt).val
           /\ request[c].body.generationConfig.temperature = 0
           /\ request[c].body.generationConfig.maxOutputTokens = args[c].max_new_tokens
           /\ (args[c].passed = <<>>
                 => request[c].body.generationConfig.maxOutputTokens = DefaultMaxNewTokens)
           /\ Len(request[c].body.safetySettings) = 4
           /\ {e.category : e \in {request[c].body.safetySettings[i] :
                                      i \in 1..Len(request[c].body.safetySettings)}}
                = {<<"HARM_CATEGORY_", h>> : h \in HarmCategories}
           /\ \A i \in 1..Len(request[c].body.safetySettings) :
                  request[c].body.safetySettings[i].threshold = "BLOCK_NONE"

RenderCalled == rp_out # NotCalled
KnownRoles(msgs) == \A i \in 1..Len(msgs) : msgs[i].role \in RoleEnum
Kept(msgs) == {i \in 1..Len(msgs) : msgs[i].role # "system"}
Rank(msgs, i) == Cardinality({k \in Kept(msgs) : k <= i})

\* C3: for a list of messages with roles in {user, assistant, system},
\* renderPrompt returns one entry {role, parts: [{text: content}]} per
\* non-system message, in input order, user mapped to "user" and assistant to
\* "model"; system messages are removed and nothing else is, so without system
\* messages the output is as long as the input.
C3_RenderList ==
    (RenderCalled /\ rp_in.type = "list" /\ KnownRoles(rp_in.msgs))
    => /\ rp_out.err = "none"
       /\ Len(rp_out.val) = Cardinality(Kept(rp_in.msgs))
       /\ \A i \in Kept(rp_in.msgs) :
              rp_out.val[Rank(rp_in.msgs, i)]
                = [parts |-> <<[text |-> rp_in.msgs[i].content]>>,
                   role |-> IF rp_in.msgs[i].role = "user" THEN "user" ELSE "model"]
       /\ (Kept(rp_in.msgs) = 1..Len(rp_in.msgs) => Len(rp_out.val) = Len(rp_in.msgs))

C3_Witness ==
    /\ RenderCalled
    /\ rp_in.type = "list"
    /\ Len(rp_in.msgs) = 3
    /\ {rp_in.msgs[i].role : i \in 1..3} = RoleEnum
    /\ rp_in.msgs[1].role = "assistant"
    /\ Len(rp_out.val) = 2
    /\ rp_out.val[1].role = "model"

\* C4: renderPrompt on a bare string s completes without error and returns
\* exactly one entry, with role "user" and one part whose text is s.
C4_RenderString ==
    (RenderCalled /\ rp_in.type = "str")
    => rp_out = Returned(<<UserEntry(rp_in.text)>>)

InstrCalled == ip_out # NotCalled
Preamble == PreambleLine1 \o <<NL>> \o PreambleLine2 \o <<NL>>
PromptLine(prompt) == <<"Prompt: ">> \o prompt
StartsWith(t, prefix) == Len(t) >= Len(prefix) /\ SubSeq(t, 1, Len(prefix)) = prefix

\* the contents occur in t in this order from position from on, none
\* overlapping another, each right after a newline
RECURSIVE PlacedInOrder(_, _, _)
PlacedInOrder(t, contents, from) ==
    IF contents = <<>> THEN TRUE
    ELSE \E o \in from..(Len(t) + 1) :
            /\ o > 1
            /\ t[o - 1] = NL
            /\ o + Len(Head(contents)) - 1 <= Len(t)
            /\ SubSeq(t, o, o + Len(Head(contents)) - 1) = Head(contents)
            /\ PlacedInOrder(t, Tail(contents), o + Len(Head(contents)))

\* C5: instructizePrompt returns a text that begins with the two-line
\* preamble, continues with the line "Prompt: <prompt>", and holds after that
\* line each source's content, one per source, in source order, each starting
\* on a line of its own; with no sources it is exactly the preamble and the
\* prompt line.
C5_Instructize ==
    InstrCalled
    => LET t == ip_out.val
           head == Preamble \o PromptLine(ip_in.prompt)
           contents == [k \in 1..Len(ip_in.sources) |-> ip_in.sources[k].content]
       IN  /\ ip_out.err = "none"
           /\ StartsWith(t, head)
           /\ (Len(t) > Len(head) => t[Len(head) + 1] = NL)
           /\ PlacedInOrder(t, contents, Len(head) + 2)
           /\ (ip_in.sources = <<>> => t = head)

C5_Witness ==
    /\ InstrCalled
    /\ Len(ip_in.sources) = 2
    /\ ip_in.sources[1].content = <<"b">>
    /\ ip_in.sources[2].content = <<NL, "b">>
    /\ ip_in.prompt = <<"a">>
    /\ Len(ip_out.val) = 13

\* C7: a generate call whose stream fails after handing out k >= 0 fragments
\* delivers exactly those k fragments, in order, and then that same error, on
\* one request; it never ends normally or with another error in its place.
C7_StreamErrorPropagates ==
    \A c \in Calls :
        (kind[c] = "generate" /\ script[c].fails /\ Ended(c))
        => /\ request[c].issued
           /\ delivered[c] = script[c].frags
           /\ err[c] = StreamError

\* C8: renderPrompt on a list holding a message whose role is outside
\* {user, assistant, system} fails with a mapping error (KeyError) and returns
\* no list.
C8_UnknownRoleFails ==
    (RenderCalled /\ rp_in.type = "list" /\ ~KnownRoles(rp_in.msgs))
    => rp_out = Raised("KeyError")

C8_Witness ==
    /\ RenderCalled
    /\ rp_in.type = "list"
    /\ Len(rp_in.msgs) = 2
    /\ rp_in.msgs[1].role = "user"
    /\ rp_in.msgs[2].role = OtherRole
    /\ rp_out.err = "KeyError"

\* C9: an answer call on a non-empty list issues a request whose contents is
\* the single user entry holding instructizePrompt(last.content, last.sources),
\* so that it depends on the last message and max_new_tokens only.
C9_AnswerUsesLastMessage ==
    \A c \in Calls :
        (kind[c] = "answer" /\ args[c].prompt.msgs # <<>> /\ Ran(c))
        => LET msgs == args[c].prompt.msgs
               last == msgs[Len(msgs)]
           IN  /\ request[c].issued
               /\ request[c].body.contents
                    = <<UserEntry(_instructize_prompt(last.content, last.sources))>>
               /\ request[c].body.generationConfig.maxOutputTokens
                    = args[c].max_new_tokens

\* C10: with two or more calls in flight on one instance, every call that has
\* ended issued a request of its own and its consumer received exactly what
\* its own stream handed out, ending as that stream ended.
C10_CallsOwnTheirStreams ==
    \A c, d \in Calls :
        (c # d /\ pc[d] # "idle" /\ Ended(c))
        => /\ request[c].issued
           /\ delivered[c] = script[c].frags
           /\ err[c] = ScriptedError(c)

====
